---- MODULE Spec2Model ----
\* Model of samples/sample_util/SampleApplication.cpp: the backend selection
\* done by the constructor and the lifecycle driven by run().
EXTENDS Integers, Sequences, FiniteSets, TLC

\* ---------------------------------------------------------------- bounds
\* Longest pending event queue the window collaborator builds up.
MaxQueue == 2
\* Number of runIteration() calls a behaviour may enter.
MaxIter == 3
\* Largest fixed step, in ticks, of the timer between two readings.
MaxTick == 2
\* Number of exit() calls one hook invocation makes at most.
MaxHookExits == 2

\* ---------------------------------------------------------------- C strings
\* A C string is the sequence of its characters; the terminating NUL is the
\* character read at any index past the end.
Ord(c) ==
    CASE c = "-" -> 45 [] c = "1" -> 49 [] c = "3" -> 51 [] c = "9" -> 57
      [] c = ":" -> 58 [] c = "=" -> 61
      [] c = "G" -> 71 [] c = "L" -> 76 [] c = "U" -> 85 [] c = "V" -> 86
      [] c = "a" -> 97 [] c = "d" -> 100 [] c = "e" -> 101 [] c = "f" -> 102
      [] c = "g" -> 103 [] c = "h" -> 104 [] c = "i" -> 105 [] c = "k" -> 107
      [] c = "l" -> 108 [] c = "m" -> 109 [] c = "n" -> 110 [] c = "o" -> 111
      [] c = "p" -> 112 [] c = "r" -> 114 [] c = "s" -> 115 [] c = "t" -> 116
      [] c = "u" -> 117 [] c = "v" -> 118 [] c = "w" -> 119 [] c = "x" -> 120

CharAt(s, i) == IF i <= Len(s) THEN Ord(s[i]) ELSE 0

\* strlen: the number of characters before the NUL.
strlen(s) == Len(s)

RECURSIVE StrCmpFrom(_, _, _)
StrCmpFrom(a, b, i) ==
    LET ca == CharAt(a, i)
        cb == CharAt(b, i)
    IN  IF ca # cb THEN ca - cb
        ELSE IF ca = 0 THEN 0
        ELSE StrCmpFrom(a, b, i + 1)

strcmp(a, b) == StrCmpFrom(a, b, 1)

RECURSIVE StrNCmpFrom(_, _, _, _)
StrNCmpFrom(a, b, i, n) ==
    LET ca == CharAt(a, i)
        cb == CharAt(b, i)
    IN  IF i > n THEN 0
        ELSE IF ca # cb THEN ca - cb
        ELSE IF ca = 0 THEN 0
        ELSE StrNCmpFrom(a, b, i + 1, n)

strncmp(a, b, n) == StrNCmpFrom(a, b, 1, n)

\* ---------------------------------------------------------------- backend table
kUseAngleArg == <<"-", "-", "u", "s", "e", "-", "a", "n", "g", "l", "e", "=">>

S_d3d9 == <<"d", "3", "d", "9">>
S_d3d11 == <<"d", "3", "d", "1", "1">>
S_gl == <<"g", "l">>
S_gles == <<"g", "l", "e", "s">>
S_null == <<"n", "u", "l", "l">>
S_vulkan == <<"v", "u", "l", "k", "a", "n">>
S_swiftshader == <<"s", "w", "i", "f", "t", "s", "h", "a", "d", "e", "r">>

kDisplayTypes ==
    << <<S_d3d9, "D3D9">>,
       <<S_d3d11, "D3D11">>,
       <<S_gl, "OPENGL">>,
       <<S_gles, "OPENGLES">>,
       <<S_null, "NULL">>,
       <<S_vulkan, "VULKAN">>,
       <<S_swiftshader, "VULKAN">> >>

RECURSIVE DisplayTypeScan(_, _)
DisplayTypeScan(displayTypeArg, k) ==
    IF k > Len(kDisplayTypes) THEN "DEFAULT"
    ELSE IF strcmp(kDisplayTypes[k][1], displayTypeArg) = 0 THEN kDisplayTypes[k][2]
    ELSE DisplayTypeScan(displayTypeArg, k + 1)

\* A table lookup that compares only as many characters as the table name has.
RECURSIVE DisplayTypeScanPrefix(_, _)
DisplayTypeScanPrefix(displayTypeArg, k) ==
    IF k > Len(kDisplayTypes) THEN "DEFAULT"
    ELSE IF strncmp(kDisplayTypes[k][1], displayTypeArg, strlen(kDisplayTypes[k][1])) = 0
         THEN kDisplayTypes[k][2]
    ELSE DisplayTypeScanPrefix(displayTypeArg, k + 1)

GetDisplayTypeByPrefix(displayTypeArg) == DisplayTypeScanPrefix(displayTypeArg, 1)

GetDisplayTypeFromArg(displayTypeArg) == DisplayTypeScan(displayTypeArg, 1)

\* A device lookup that treats every Vulkan-backed name as SwiftShader.
GetDeviceTypeByRenderer(displayTypeArg) ==
    IF GetDisplayTypeFromArg(displayTypeArg) = "VULKAN" THEN "SWIFTSHADER"
    ELSE "HARDWARE"

GetDeviceTypeFromArg(displayTypeArg) ==
    IF strcmp(displayTypeArg, S_swiftshader) = 0 THEN "SWIFTSHADER"
    ELSE "HARDWARE"

\* A flag test that looks for the flag in any argument instead of argv[1].
FlagIndexAnywhere(args) ==
    IF \E i \in 2..Len(args) : strncmp(args[i], kUseAngleArg, strlen(kUseAngleArg)) = 0
    THEN CHOOSE i \in 2..Len(args) :
             /\ strncmp(args[i], kUseAngleArg, strlen(kUseAngleArg)) = 0
             /\ \A j \in 2..(i - 1) : strncmp(args[j], kUseAngleArg, strlen(kUseAngleArg)) # 0
    ELSE 0

\* The index of the argument the constructor parses, 0 when it parses none
\* (argc > 1 && strncmp(argv[1], kUseAngleArg, strlen(kUseAngleArg)) == 0;
\* C's argv[1] is args[2] here).
FlagIndex(args) ==
    IF Len(args) > 1 /\ strncmp(args[2], kUseAngleArg, strlen(kUseAngleArg)) = 0
    THEN 2
    ELSE 0

\* argv[1] + strlen(kUseAngleArg)
FlagValue(arg) == SubSeq(arg, strlen(kUseAngleArg) + 1, Len(arg))

\* ---------------------------------------------------------------- inputs
S_prog == <<"p", "r", "o", "g">>

\* Backend tokens tried: the seven table names, the empty string, other letter
\* cases, proper prefixes and extensions of table names, unknown names.
Tokens ==
    { S_d3d9, S_d3d11, S_gl, S_gles, S_null, S_vulkan, S_swiftshader,
      <<>>,
      <<"V", "u", "l", "k", "a", "n">>,
      <<"G", "L">>,
      <<"g">>,
      <<"g", "l", "e">>,
      <<"g", "l", "e", "s", "x">>,
      <<"d", "3", "d">>,
      <<"d", "3", "d", "1">>,
      <<"d", "3", "d", "1", "1", "1">>,
      <<"n", "u", "l">>,
      <<"v", "u", "l", "k", "a">>,
      <<"v", "u", "l", "k", "a", "n", "x">>,
      <<"s", "w", "i", "f", "t", "s", "h", "a", "d", "e">>,
      <<"s", "w", "i", "f", "t", "s", "h", "a", "d", "e", "r", "x">>,
      <<"m", "e", "t", "a", "l">> }

\* Arguments that do not start with the flag.
PlainArgs ==
    { S_vulkan, S_swiftshader,
      <<"-", "-", "u", "s", "e", "-", "a", "n", "g", "l", "e">>,
      <<"-", "u", "s", "e", "-", "a", "n", "g", "l", "e", "=">> \o S_vulkan,
      <<"-", "-", "U", "s", "e", "-", "a", "n", "g", "l", "e", "=">> \o S_swiftshader,
      <<"-", "-", "u", "s", "e", "-", "a", "n", "g", "l", "e", ":">> \o S_vulkan,
      <<>> }

FlagArgs == { kUseAngleArg \o t : t \in Tokens }

LateArgs == { kUseAngleArg \o S_vulkan, kUseAngleArg \o S_swiftshader }

\* Command lines the constructor is tried on (element 1 is C's argv[0]).
Argvs ==
    { <<S_prog>> }
      \cup { <<S_prog, a>> : a \in FlagArgs \cup PlainArgs }
      \cup { <<S_prog, a, b>> : a \in FlagArgs \cup PlainArgs, b \in LateArgs }

\* Command lines used when the lifecycle is explored.
RunArgvs == { <<S_prog>>, <<S_prog, kUseAngleArg \o S_swiftshader>> }

EventKinds == {"CLOSED", "OTHER"}

RECURSIVE SeqsUpTo(_, _)
SeqsUpTo(S, n) ==
    IF n = 0 THEN { <<>> }
    ELSE LET shorter == SeqsUpTo(S, n - 1)
         IN  shorter \cup { Append(q, e) : q \in shorter, e \in S }

Range(q) == { q[i] : i \in 1..Len(q) }

Last(q) == q[Len(q)]

IsPrefixOf(p, q) == Len(p) <= Len(q) /\ SubSeq(q, 1, Len(p)) = p

\* ---------------------------------------------------------------- state
VARIABLES
    pc,          \* position of the single thread in construct / run / prepare / iterate
    argv,        \* the command line handed to the constructor
    renderer,    \* mPlatformParams.renderer
    deviceType,  \* mPlatformParams.deviceType
    lookupArg,   \* the arguments handed to the two lookup functions so far
    mRunning,    \* SampleApplication::mRunning
    mPrevTime,   \* SampleApplication::mPrevTime
    timerOn,     \* mTimer.start() has been called
    timerStart,  \* the clock value at mTimer.start()
    now,         \* the clock, in ticks
    tick,        \* the fixed step of the clock between two timer readings
    events,      \* the window's pending event queue
    path,        \* which branch of run() is executing: "none", "own", "explicit"
    elapsedTime, \* runIteration's local
    deltaTime,   \* runIteration's local
    prepResult,  \* <<v>>: the value the last prepareToRun() returned
    ownResult,   \* <<v>>: the value runOwnLoop() returned
    result,      \* <<v>>: the value run() returned
    nIter,       \* number of runIteration() calls entered
    prepCalls,   \* calls made by the current/last prepareToRun(), in order
    iterCalls,   \* calls made by the current/last runIteration(), in order
    teardown,    \* teardown calls made by run(), in order
    hookExits,   \* exit() calls made by the current/last hook invocation
    entryRunning,\* mRunning when the current/last runIteration() was entered
    entryEvents, \* the event queue when the current/last runIteration() was entered
    drainEvents, \* the event queue when its event drain began
    lateFrame,   \* a step/draw/swap call happened after teardown began
    winInit,     \* what the window's initialize() returned: "none", "ok", "failed"
    nPrepare,    \* number of prepareToRun() calls entered
    stepDeltas,  \* the delta values passed to step() so far, in order
    doneElapsed, \* elapsedTime of the last iteration that ran to completion, 0 if none
    entryPrevTime, \* mPrevTime when the current/last runIteration() was entered
    drainRunning,\* mRunning when its event drain began
    iterResult   \* <<v>>: the value the current/last runIteration() returned

argVars == <<argv, renderer, deviceType, lookupArg>>
timeVars == <<mPrevTime, timerOn, timerStart, now, tick>>
iterVars == <<elapsedTime, deltaTime, nIter, iterCalls, entryRunning, entryEvents, drainEvents>>
runVars == <<path, prepResult, ownResult, result, prepCalls, teardown, lateFrame>>
histVars == <<winInit, nPrepare, stepDeltas, doneElapsed, entryPrevTime, drainRunning,
              iterResult>>
vars == <<pc, argVars, mRunning, timeVars, events, iterVars, runVars, hookExits, histVars>>

\* A return value not produced yet is the empty sequence; <<v>> once returned.
NoResult == <<>>

\* The storage of the object before its constructor has run; mRunning holds an
\* indeterminate value.
InitWith(argvs) ==
    /\ pc = "new"
    /\ argv \in argvs
    /\ renderer = "UNSET"
    /\ deviceType = "UNSET"
    /\ lookupArg = <<>>
    /\ mRunning \in BOOLEAN
    /\ mPrevTime = 0
    /\ timerOn = FALSE
    /\ timerStart = 0
    /\ now = 0
    /\ tick \in 1..MaxTick
    /\ events = <<>>
    /\ path = "none"
    /\ elapsedTime = 0
    /\ deltaTime = 0
    /\ prepResult = NoResult
    /\ ownResult = NoResult
    /\ result = NoResult
    /\ nIter = 0
    /\ prepCalls = <<>>
    /\ iterCalls = <<>>
    /\ teardown = <<>>
    /\ hookExits = 0
    /\ entryRunning = FALSE
    /\ entryEvents = <<>>
    /\ drainEvents = <<>>
    /\ lateFrame = FALSE
    /\ winInit = "none"
    /\ nPrepare = 0
    /\ stepDeltas = <<>>
    /\ doneElapsed = 0
    /\ entryPrevTime = 0
    /\ drainRunning = FALSE
    /\ iterResult = NoResult

\* ---------------------------------------------------------------- constructor
\* mRunning(false) in the member initializer list.
CtorRunning == FALSE

\* SampleApplication::SampleApplication
Construct ==
    /\ pc = "new"
    /\ pc' = "constructed"
    /\ mRunning' = CtorRunning
    /\ LET i == FlagIndex(argv)
       IN  IF i # 0
           THEN LET arg == FlagValue(argv[i])
                IN  /\ renderer' = GetDisplayTypeFromArg(arg)
                    /\ deviceType' = GetDeviceTypeFromArg(arg)
                    /\ lookupArg' = <<arg, arg>>
           ELSE /\ renderer' = "DEFAULT"
                /\ UNCHANGED <<deviceType, lookupArg>>
    /\ UNCHANGED <<argv, timeVars, events, iterVars, runVars, hookExits>>
    /\ UNCHANGED histVars

InitArgs == InitWith(Argvs)
NextArgs == Construct
SpecArgs == InitArgs /\ [][NextArgs]_vars

\* ---------------------------------------------------------------- hooks
\* initialize(), step(), draw() and destroy() are virtual: while one of them
\* executes, the sample may call the public exit() and popEvent() any number
\* of times before it returns.
HookPcs == {"hook_initialize", "hook_step", "hook_draw", "hook_destroy"}

\* SampleApplication::exit, replaced by a method that leaves the flag alone.
exitKeepsFlag == mRunning' = mRunning

\* SampleApplication::exit
exit == mRunning' = FALSE

\* SampleApplication::popEvent: take the oldest pending event, if there is one.
popEvent == events' = Tail(events)

HookExit ==
    /\ pc \in HookPcs
    /\ hookExits < MaxHookExits
    /\ exit
    /\ hookExits' = hookExits + 1
    /\ UNCHANGED <<pc, argVars, timeVars, events, iterVars, runVars>>
    /\ UNCHANGED histVars

HookPopEvent ==
    /\ pc \in HookPcs
    /\ events # <<>>
    /\ popEvent
    /\ UNCHANGED <<pc, argVars, mRunning, timeVars, iterVars, runVars, hookExits>>
    /\ UNCHANGED histVars

\* ---------------------------------------------------------------- prepareToRun
\* The value prepareToRun() hands back when a step fails.
PrepFailure == -1

\* mOSWindow->setVisible(true) and the fixed ConfigParameters.
PrepSetVisible ==
    /\ pc = "prep_setVisible"
    /\ prepCalls' = <<"setVisible">>
    /\ prepResult' = NoResult
    /\ pc' = "prep_initializeGL"
    /\ UNCHANGED <<argVars, mRunning, timeVars, events, iterVars, path, ownResult,
                   result, teardown, lateFrame, hookExits>>
    /\ nPrepare' = nPrepare + 1
    /\ UNCHANGED <<winInit, stepDeltas, doneElapsed, entryPrevTime, drainRunning, iterResult>>

\* The test of initializeGL()'s result, left out.
InitializeGLUnchecked(ok) == TRUE

\* if (!mEGLWindow->initializeGL(...)): whether prepareToRun() goes on.
InitializeGLPassed(ok) == ok

\* if (!mEGLWindow->initializeGL(...)) return -1;
PrepInitializeGL(ok) ==
    /\ pc = "prep_initializeGL"
    /\ prepCalls' = Append(prepCalls, IF ok THEN "initializeGL" ELSE "initializeGL_failed")
    /\ IF InitializeGLPassed(ok)
       THEN /\ pc' = "prep_setSwapInterval"
            /\ UNCHANGED prepResult
       ELSE /\ pc' = "prep_return"
            /\ prepResult' = <<PrepFailure>>
    /\ UNCHANGED <<argVars, mRunning, timeVars, events, iterVars, path, ownResult,
                   result, teardown, lateFrame, hookExits>>
    /\ UNCHANGED histVars

\* if (!mEGLWindow->setSwapInterval(0)) return -1;
PrepSetSwapInterval(ok) ==
    /\ pc = "prep_setSwapInterval"
    /\ prepCalls' = Append(prepCalls, IF ok THEN "setSwapInterval" ELSE "setSwapInterval_failed")
    /\ IF ok
       THEN /\ pc' = "prep_loadGLES"
            /\ UNCHANGED prepResult
       ELSE /\ pc' = "prep_return"
            /\ prepResult' = <<PrepFailure>>
    /\ UNCHANGED <<argVars, mRunning, timeVars, events, iterVars, path, ownResult,
                   result, teardown, lateFrame, hookExits>>
    /\ UNCHANGED histVars

\* angle::LoadGLES(eglGetProcAddress); mRunning = true; then initialize() is entered.
PrepLoadGLES ==
    /\ pc = "prep_loadGLES"
    /\ prepCalls' = prepCalls \o <<"LoadGLES", "initialize">>
    /\ mRunning' = TRUE
    /\ hookExits' = 0
    /\ pc' = "hook_initialize"
    /\ UNCHANGED <<argVars, timeVars, events, iterVars, path, prepResult, ownResult,
                   result, teardown, lateFrame>>
    /\ UNCHANGED histVars

\* What prepareToRun() does with the flag when initialize() returned false,
\* with the rollback forgotten.
InitFailedKeepsRunning == mRunning' = mRunning

\* mRunning = false; after initialize() returned false.
InitFailedRollback == mRunning' = FALSE

\* initialize() returns ok: if (!initialize()) { mRunning = false; return -1; }
InitializeReturn(ok) ==
    /\ pc = "hook_initialize"
    /\ IF ok
       THEN /\ pc' = "prep_timerStart"
            /\ UNCHANGED <<mRunning, prepResult>>
       ELSE /\ InitFailedRollback
            /\ prepResult' = <<PrepFailure>>
            /\ pc' = "prep_return"
    /\ prepCalls' = IF ok THEN prepCalls ELSE Append(prepCalls, "initialize_failed")
    /\ UNCHANGED <<argVars, timeVars, events, iterVars, path, ownResult,
                   result, teardown, lateFrame, hookExits>>
    /\ UNCHANGED histVars

\* mTimer.start(); mPrevTime = 0.0; return 0;
PrepTimerStart ==
    /\ pc = "prep_timerStart"
    /\ timerOn' = TRUE
    /\ timerStart' = now
    /\ mPrevTime' = 0
    /\ prepCalls' = Append(prepCalls, "timerStart")
    /\ prepResult' = <<0>>
    /\ pc' = "prep_return"
    /\ UNCHANGED <<argVars, mRunning, now, tick, events, iterVars, path, ownResult,
                   result, teardown, lateFrame, hookExits>>
    /\ UNCHANGED histVars

\* ---------------------------------------------------------------- runIteration
\* Where a finished runIteration() returns to.
IterCaller == IF path = "own" THEN "own_loop" ELSE "run_loop"

\* The delta computed with its operands exchanged.
DeltaTimeReversed(elapsed, prev) == prev - elapsed

\* double deltaTime = elapsedTime - mPrevTime;
DeltaTime(elapsed, prev) == elapsed - prev

\* elapsedTime = mTimer.getElapsedTime(); deltaTime = elapsedTime - mPrevTime;
\* step(deltaTime, elapsedTime) is entered. The clock has moved on by one
\* fixed step since the previous reading.
IterBegin ==
    /\ pc = "iter_begin"
    /\ now' = now + tick
    /\ elapsedTime' = now' - timerStart
    /\ deltaTime' = DeltaTime(elapsedTime', mPrevTime)
    /\ iterCalls' = <<"step">>
    /\ lateFrame' = (lateFrame \/ teardown # <<>>)
    /\ entryRunning' = mRunning
    /\ entryEvents' = events
    /\ drainEvents' = <<>>
    /\ hookExits' = 0
    /\ pc' = "hook_step"
    /\ UNCHANGED <<argVars, mRunning, mPrevTime, timerOn, timerStart, tick, events, nIter,
                   path, prepResult, ownResult, result, prepCalls, teardown>>
    /\ stepDeltas' = Append(stepDeltas, deltaTime')
    /\ entryPrevTime' = mPrevTime
    /\ iterResult' = NoResult
    /\ drainRunning' = FALSE
    /\ UNCHANGED <<winInit, nPrepare, doneElapsed>>

\* step() returns; the event drain begins.
StepReturn ==
    /\ pc = "hook_step"
    /\ drainEvents' = events
    /\ pc' = "iter_drain"
    /\ UNCHANGED <<argVars, mRunning, timeVars, events, elapsedTime, deltaTime, nIter,
                   iterCalls, entryRunning, entryEvents, runVars, hookExits>>
    /\ drainRunning' = mRunning
    /\ UNCHANGED <<winInit, nPrepare, stepDeltas, doneElapsed, entryPrevTime, iterResult>>

\* The drain's reaction to an event, with the close test inverted.
DrainEventInverted(kind) ==
    IF kind # "CLOSED" THEN exit ELSE UNCHANGED mRunning

\* if (event.Type == Event::EVENT_CLOSED) { exit(); }
DrainEvent(kind) ==
    IF kind = "CLOSED" THEN exit ELSE UNCHANGED mRunning

\* A drain that stops popping once a close event has cleared the flag.
DrainStopsWhenStopped == events # <<>> /\ mRunning

\* while (popEvent(&event)): the drain goes on while an event is pending.
DrainContinues == events # <<>>

\* One turn of while (popEvent(&event)) with an event pending.
IterPopEvent ==
    /\ pc = "iter_drain"
    /\ DrainContinues
    /\ popEvent
    /\ DrainEvent(Head(events))
    /\ iterCalls' = Append(iterCalls, "popEvent")
    /\ UNCHANGED <<pc, argVars, timeVars, elapsedTime, deltaTime, nIter, entryRunning,
                   entryEvents, drainEvents, runVars, hookExits>>
    /\ UNCHANGED histVars

\* The test after the drain, always falling through to the drawing.
SkipFrameNever(running) == FALSE

\* if (!mRunning) return 0;
SkipFrame(running) == ~running

\* The early return, with the baseline stored before the flag is tested.
SkippedBaselineStored(prev, elapsed) == elapsed

\* if (!mRunning) return 0; leaves mPrevTime as it was.
SkippedBaseline(prev, elapsed) == prev

\* popEvent() returned false: the drain is over; either return 0 or enter draw().
IterDrainDone ==
    /\ pc = "iter_drain"
    /\ ~DrainContinues
    /\ IF SkipFrame(mRunning)
       THEN /\ pc' = "iter_return"
            /\ UNCHANGED <<iterCalls, lateFrame, hookExits>>
       ELSE /\ pc' = "hook_draw"
            /\ iterCalls' = Append(iterCalls, "draw")
            /\ lateFrame' = (lateFrame \/ teardown # <<>>)
            /\ hookExits' = 0
    /\ mPrevTime' = IF SkipFrame(mRunning) THEN SkippedBaseline(mPrevTime, elapsedTime)
                    ELSE mPrevTime
    /\ iterResult' = IF SkipFrame(mRunning) THEN <<0>> ELSE iterResult
    /\ UNCHANGED <<argVars, mRunning, timerOn, timerStart, now, tick, events, elapsedTime,
                   deltaTime, nIter, entryRunning, entryEvents, drainEvents, path,
                   prepResult, ownResult, result, prepCalls, teardown>>
    /\ UNCHANGED <<winInit, nPrepare, stepDeltas, doneElapsed, entryPrevTime, drainRunning>>

\* draw() returns; swap() calls mEGLWindow->swap().
DrawReturn ==
    /\ pc = "hook_draw"
    /\ iterCalls' = Append(iterCalls, "swap")
    /\ lateFrame' = (lateFrame \/ teardown # <<>>)
    /\ pc' = "iter_messageLoop"
    /\ UNCHANGED <<argVars, mRunning, timeVars, events, elapsedTime, deltaTime, nIter,
                   entryRunning, entryEvents, drainEvents, path, prepResult, ownResult,
                   result, prepCalls, teardown, hookExits>>
    /\ UNCHANGED histVars

\* mOSWindow->messageLoop() queues the input that arrived; mPrevTime = elapsedTime.
IterMessageLoop(arrived) ==
    /\ pc = "iter_messageLoop"
    /\ Len(events) + Len(arrived) <= MaxQueue
    /\ events' = events \o arrived
    /\ iterCalls' = Append(iterCalls, "messageLoop")
    /\ mPrevTime' = elapsedTime
    /\ pc' = "iter_return"
    /\ UNCHANGED <<argVars, mRunning, timerOn, timerStart, now, tick, elapsedTime, deltaTime,
                   nIter, entryRunning, entryEvents, drainEvents, runVars, hookExits>>
    /\ doneElapsed' = elapsedTime
    /\ iterResult' = <<0>>
    /\ UNCHANGED <<winInit, nPrepare, stepDeltas, entryPrevTime, drainRunning>>

\* return 0;
IterReturn ==
    /\ pc = "iter_return"
    /\ pc' = IterCaller
    /\ UNCHANGED <<argVars, mRunning, timeVars, events, iterVars, runVars, hookExits>>
    /\ UNCHANGED histVars

\* ---------------------------------------------------------------- run
\* The value run() hands back when the window cannot be initialized.
WindowInitFailure == -1

\* The test of the window's initialize() result, left out.
WindowInitUnchecked(ok) == TRUE

\* if (!mOSWindow->initialize(mName, mWidth, mHeight)): whether run() goes on.
WindowInitPassed(ok) == ok

\* if (!mOSWindow->initialize(mName, mWidth, mHeight)) return -1;
RunWindowInitialize(ok) ==
    /\ pc = "constructed"
    /\ IF WindowInitPassed(ok)
       THEN /\ pc' = "run_hasOwnLoop"
            /\ UNCHANGED result
       ELSE /\ pc' = "returned"
            /\ result' = <<WindowInitFailure>>
    /\ UNCHANGED <<argVars, mRunning, timeVars, events, iterVars, path, prepResult,
                   ownResult, prepCalls, teardown, lateFrame, hookExits>>
    /\ winInit' = IF ok THEN "ok" ELSE "failed"
    /\ UNCHANGED <<nPrepare, stepDeltas, doneElapsed, entryPrevTime, drainRunning, iterResult>>

\* mOSWindow->hasOwnLoop() is true: runOwnLoop(prepareToRun, runIteration) is called.
RunOwnLoopCall ==
    /\ pc = "run_hasOwnLoop"
    /\ path' = "own"
    /\ pc' = "own_start"
    /\ UNCHANGED <<argVars, mRunning, timeVars, events, iterVars, prepResult, ownResult,
                   result, prepCalls, teardown, lateFrame, hookExits>>
    /\ UNCHANGED histVars

\* mOSWindow->hasOwnLoop() is false: prepareToRun() is called.
RunPrepareCall ==
    /\ pc = "run_hasOwnLoop"
    /\ path' = "explicit"
    /\ pc' = "prep_setVisible"
    /\ UNCHANGED <<argVars, mRunning, timeVars, events, iterVars, prepResult, ownResult,
                   result, prepCalls, teardown, lateFrame, hookExits>>
    /\ UNCHANGED histVars

\* The explicit path's reaction to prepareToRun()'s value, going on to the
\* teardown when preparation failed.
PrepareFailedGoesTo(r) == IF r # 0 THEN "run_destroy" ELSE "run_loop"

\* if ((result = prepareToRun())) return result;
PrepareGoesTo(r) == IF r # 0 THEN "returned" ELSE "run_loop"

RunPrepareReturn ==
    /\ pc = "prep_return"
    /\ path = "explicit"
    /\ result' = prepResult
    /\ pc' = PrepareGoesTo(prepResult[1])
    /\ UNCHANGED <<argVars, mRunning, timeVars, events, iterVars, path, prepResult,
                   ownResult, prepCalls, teardown, lateFrame, hookExits>>
    /\ UNCHANGED histVars

\* The loop test, iterating whatever the flag says.
LoopContinuesAlways(running) == TRUE

\* while (mRunning)
LoopContinues(running) == running

\* while (mRunning) { runIteration(); }
RunLoopIterate ==
    /\ pc = "run_loop"
    /\ LoopContinues(mRunning)
    /\ nIter < MaxIter
    /\ nIter' = nIter + 1
    /\ pc' = "iter_begin"
    /\ UNCHANGED <<argVars, mRunning, timeVars, events, elapsedTime, deltaTime, iterCalls,
                   entryRunning, entryEvents, drainEvents, runVars, hookExits>>
    /\ UNCHANGED histVars

\* The loop has ended: destroy() is entered.
RunLoopExit ==
    /\ pc = "run_loop"
    /\ ~LoopContinues(mRunning)
    /\ pc' = "run_destroy"
    /\ UNCHANGED <<argVars, mRunning, timeVars, events, iterVars, runVars, hookExits>>
    /\ UNCHANGED histVars

\* result = mOSWindow->runOwnLoop(...), the value assigned replaced by 0.
OwnLoopValueDropped(r) == <<0>>

\* result = mOSWindow->runOwnLoop(...)
OwnLoopValue(r) == r

RunOwnLoopReturn ==
    /\ pc = "own_returned"
    /\ result' = OwnLoopValue(ownResult)
    /\ pc' = "run_destroy"
    /\ UNCHANGED <<argVars, mRunning, timeVars, events, iterVars, path, prepResult,
                   ownResult, prepCalls, teardown, lateFrame, hookExits>>
    /\ UNCHANGED histVars

\* The teardown sequence with the context torn down before the user hook.
TeardownOrderSwapped == <<"destroyGL", "destroy", "windowDestroy">>

\* destroy(); mEGLWindow->destroyGL(); mOSWindow->destroy();
TeardownOrder == <<"destroy", "destroyGL", "windowDestroy">>

\* destroy() is entered.
RunDestroyCall ==
    /\ pc = "run_destroy"
    /\ teardown' = Append(teardown, TeardownOrder[1])
    /\ hookExits' = 0
    /\ pc' = "hook_destroy"
    /\ UNCHANGED <<argVars, mRunning, timeVars, events, iterVars, path, prepResult,
                   ownResult, result, prepCalls, lateFrame>>
    /\ UNCHANGED histVars

\* destroy() returns; mEGLWindow->destroyGL().
DestroyReturn ==
    /\ pc = "hook_destroy"
    /\ teardown' = Append(teardown, TeardownOrder[2])
    /\ pc' = "run_windowDestroy"
    /\ UNCHANGED <<argVars, mRunning, timeVars, events, iterVars, path, prepResult,
                   ownResult, result, prepCalls, lateFrame, hookExits>>
    /\ UNCHANGED histVars

\* mOSWindow->destroy(); return result;
RunWindowDestroy ==
    /\ pc = "run_windowDestroy"
    /\ teardown' = Append(teardown, TeardownOrder[3])
    /\ pc' = "returned"
    /\ UNCHANGED <<argVars, mRunning, timeVars, events, iterVars, path, prepResult,
                   ownResult, result, prepCalls, lateFrame, hookExits>>
    /\ UNCHANGED histVars

\* ---------------------------------------------------------------- runOwnLoop
\* The window collaborator's own loop: it calls the prepare callback once,
\* stops if that failed, otherwise calls the iterate callback any number of
\* times, and returns a value of its own choosing.
OwnLoopResults == {-1, 0, 1}

OwnLoopPrepare ==
    /\ pc = "own_start"
    /\ pc' = "prep_setVisible"
    /\ UNCHANGED <<argVars, mRunning, timeVars, events, iterVars, runVars, hookExits>>
    /\ UNCHANGED histVars

OwnLoopPrepareReturn ==
    /\ pc = "prep_return"
    /\ path = "own"
    /\ pc' = IF prepResult[1] # 0 THEN "own_stop" ELSE "own_loop"
    /\ UNCHANGED <<argVars, mRunning, timeVars, events, iterVars, runVars, hookExits>>
    /\ UNCHANGED histVars

OwnLoopIterate ==
    /\ pc = "own_loop"
    /\ nIter < MaxIter
    /\ nIter' = nIter + 1
    /\ pc' = "iter_begin"
    /\ UNCHANGED <<argVars, mRunning, timeVars, events, elapsedTime, deltaTime, iterCalls,
                   entryRunning, entryEvents, drainEvents, runVars, hookExits>>
    /\ UNCHANGED histVars

OwnLoopReturn(r) ==
    /\ pc \in {"own_loop", "own_stop"}
    /\ ownResult' = <<r>>
    /\ pc' = "own_returned"
    /\ UNCHANGED <<argVars, mRunning, timeVars, events, iterVars, path, prepResult,
                   result, prepCalls, teardown, lateFrame, hookExits>>
    /\ UNCHANGED histVars

\* ---------------------------------------------------------------- specification
Init == InitWith(RunArgvs)

\* The steps of the constructor, of prepareToRun(), of runIteration() and of
\* run() on its explicit path.
ExplicitNext ==
    \/ Construct
    \/ HookExit
    \/ HookPopEvent
    \/ PrepSetVisible
    \/ \E ok \in BOOLEAN : PrepInitializeGL(ok)
    \/ \E ok \in BOOLEAN : PrepSetSwapInterval(ok)
    \/ PrepLoadGLES
    \/ \E ok \in BOOLEAN : InitializeReturn(ok)
    \/ PrepTimerStart
    \/ IterBegin
    \/ StepReturn
    \/ IterPopEvent
    \/ IterDrainDone
    \/ DrawReturn
    \/ \E arrived \in SeqsUpTo(EventKinds, MaxQueue) : IterMessageLoop(arrived)
    \/ IterReturn
    \/ \E ok \in BOOLEAN : RunWindowInitialize(ok)
    \/ RunPrepareCall
    \/ RunPrepareReturn
    \/ RunLoopIterate
    \/ RunLoopExit
    \/ RunDestroyCall
    \/ DestroyReturn
    \/ RunWindowDestroy

\* The steps of run() on its own-loop path and of the window's own loop.
OwnLoopNext ==
    \/ RunOwnLoopCall
    \/ RunOwnLoopReturn
    \/ OwnLoopPrepare
    \/ OwnLoopPrepareReturn
    \/ OwnLoopIterate
    \/ \E r \in OwnLoopResults : OwnLoopReturn(r)

Next == ExplicitNext \/ OwnLoopNext

Spec == Init /\ [][Next]_vars

\* The single thread keeps executing: every hook and every collaborator call
\* returns, so the program takes its next step whenever it has one.
\* The program with a window whose hasOwnLoop() is false, one command line and
\* a unit timer step.
LiveInit == InitWith({ <<S_prog>> }) /\ tick = 1

LiveSpec == LiveInit /\ [][ExplicitNext]_vars /\ WF_vars(ExplicitNext)

\* ---------------------------------------------------------------- properties
\* The events the current drain has popped so far.
Drained == SubSeq(drainEvents, 1, Len(drainEvents) - Len(events))

NoDrawNoSwap == "draw" \notin Range(iterCalls) /\ "swap" \notin Range(iterCalls)

\* C1 as stated: a runIteration() call entered with running == true and a
\* queue holding at least one close event returns with running == false and
\* has called neither draw() nor swap().
C1_CloseAtEntryStops ==
    (pc = "iter_return" /\ entryRunning /\ "CLOSED" \in Range(entryEvents))
        => (~mRunning /\ NoDrawNoSwap)

\* C1 amended: a runIteration() call entered with running == true whose queue
\* still holds a close event when the event drain begins (step() has not
\* popped it) returns with running == false and has called neither draw()
\* nor swap().
C1_CloseAtDrainStops ==
    (pc = "iter_return" /\ entryRunning /\ "CLOSED" \in Range(drainEvents))
        => (~mRunning /\ NoDrawNoSwap)

\* A call that drained a close event mixed with another event has returned.
C1_Witness ==
    /\ pc = "iter_return"
    /\ entryRunning
    /\ drainEvents = <<"OTHER", "CLOSED">>
    /\ hookExits = 0
    /\ ~mRunning

\* C2 as stated: running is false right after construction, true whenever
\* prepareToRun() returns 0, and false after any call of exit(), from a hook
\* (once or twice) or from the event drain.
C2_RunningFlag ==
    /\ pc = "constructed" => ~mRunning
    /\ (pc = "prep_return" /\ prepResult = <<0>>) => mRunning
    /\ (pc \in HookPcs /\ hookExits >= 1) => ~mRunning
    /\ (pc = "iter_drain" /\ "CLOSED" \in Range(Drained)) => ~mRunning

\* C2 amended: as C2, but when prepareToRun() returns 0 running is true
\* exactly if the initialize() hook has not called exit().
C2_RunningFlagUnlessInitExits ==
    /\ pc = "constructed" => ~mRunning
    /\ (pc = "prep_return" /\ prepResult = <<0>>) => (mRunning <=> hookExits = 0)
    /\ (pc \in HookPcs /\ hookExits >= 1) => ~mRunning
    /\ (pc = "iter_drain" /\ "CLOSED" \in Range(Drained)) => ~mRunning

\* step() has called exit() twice in an iteration entered while running.
C2_Witness ==
    /\ pc = "hook_step"
    /\ entryRunning
    /\ hookExits = 2
    /\ ~mRunning

\* C3: when initialize() returns false, prepareToRun() returns -1 with
\* running false and the frame timer never started.
C3_InitializeFailure ==
    (pc = "prep_return" /\ Last(prepCalls) = "initialize_failed")
        => /\ prepResult = <<-1>>
           /\ prepResult[1] < 0
           /\ ~mRunning
           /\ ~timerOn
           /\ "timerStart" \notin Range(prepCalls)

\* initialize() returned false without having called exit() itself.
C3_Witness ==
    /\ pc = "prep_return"
    /\ Last(prepCalls) = "initialize_failed"
    /\ hookExits = 0
    /\ prepCalls = <<"setVisible", "initializeGL", "setSwapInterval", "LoadGLES",
                     "initialize", "initialize_failed">>

PrepFailedEarly ==
    "initializeGL_failed" \in Range(prepCalls) \/ "setSwapInterval_failed" \in Range(prepCalls)

\* C4: when initializeGL() or setSwapInterval(0) fails, prepareToRun() returns
\* -1, running is false during the whole call and after it, no later step of
\* prepareToRun() runs, and the explicit loop makes no runIteration() call.
C4_ContextFailure ==
    /\ pc \in {"prep_setVisible", "prep_initializeGL", "prep_setSwapInterval",
               "prep_loadGLES"} => ~mRunning
    /\ "initializeGL_failed" \in Range(prepCalls)
           => prepCalls = <<"setVisible", "initializeGL_failed">>
    /\ "setSwapInterval_failed" \in Range(prepCalls)
           => prepCalls = <<"setVisible", "initializeGL", "setSwapInterval_failed">>
    /\ PrepFailedEarly
           => /\ ~mRunning
              /\ ~timerOn
              /\ pc # "prep_return" => prepResult = <<-1>>
              /\ pc = "prep_return" => (prepResult = <<-1>> /\ prepResult[1] < 0)
              /\ path = "explicit" => (nIter = 0 /\ pc \in {"prep_return", "returned"})

\* run() has returned on the explicit path after setSwapInterval(0) failed.
C4_Witness ==
    /\ pc = "returned"
    /\ path = "explicit"
    /\ Last(prepCalls) = "setSwapInterval_failed"
    /\ nIter = 0

\* The loop of run() has ended: runOwnLoop() returned, or prepareToRun()
\* succeeded on the explicit path and the while loop was left.
LoopEnded == path = "own" \/ (path = "explicit" /\ prepResult = <<0>>)

\* C5: once the loop has ended, destroy(), destroyGL() and the window's
\* destroy() are called once each in that order before run() returns, and no
\* step(), draw() or swap() call follows the first of them.
C5_TeardownOrder ==
    /\ IsPrefixOf(teardown, <<"destroy", "destroyGL", "windowDestroy">>)
    /\ (pc = "returned" /\ LoopEnded)
           => teardown = <<"destroy", "destroyGL", "windowDestroy">>
    /\ teardown # <<>> => pc \in {"hook_destroy", "run_windowDestroy", "returned"}
    /\ pc = "hook_destroy" => teardown = <<"destroy">>
    /\ pc = "run_windowDestroy" => teardown = <<"destroy", "destroyGL">>
    /\ ~lateFrame

\* run() has returned on the explicit path after at least two iterations.
C5_Witness ==
    /\ pc = "returned"
    /\ path = "explicit"
    /\ nIter >= 2
    /\ teardown = <<"destroy", "destroyGL", "windowDestroy">>

\* C6: on the explicit path a failed prepareToRun() makes run() return its
\* value with no teardown call; on the own-loop path the three teardown calls
\* are made after runOwnLoop() returned, whatever it returned.
C6_TeardownOnFailure ==
    /\ (pc = "returned" /\ path = "explicit" /\ prepResult # <<0>>)
           => (result = prepResult /\ prepResult[1] # 0 /\ teardown = <<>>)
    /\ (pc = "returned" /\ path = "own")
           => teardown = <<"destroy", "destroyGL", "windowDestroy">>
    /\ (path = "own" /\ teardown # <<>>) => ownResult # NoResult

\* run() has returned on the explicit path after a failed preparation.
C6_Witness ==
    /\ pc = "returned"
    /\ path = "explicit"
    /\ prepResult = <<-1>>
    /\ teardown = <<>>

\* C7: on the explicit path run() returns 0 iff the window initialization
\* and prepareToRun() succeeded, otherwise -1; on the own-loop path it returns
\* the value runOwnLoop() returned.
C7_ReturnValue ==
    pc = "returned"
        => /\ path = "none" => result = <<-1>>
           /\ path = "explicit" => /\ result = <<0>> <=> prepResult = <<0>>
                                   /\ result # <<0>> => result = <<-1>>
           /\ path = "own" => result = ownResult
           /\ result # NoResult

\* run() has returned the nonzero value of runOwnLoop() after the teardown.
C7_Witness ==
    /\ pc = "returned"
    /\ path = "own"
    /\ ownResult = <<1>>
    /\ teardown = <<"destroy", "destroyGL", "windowDestroy">>

\* The renderer the table pairs with a token, by plain equality of strings.
TableRenderer(t) ==
    CASE t = S_d3d9 -> "D3D9"
      [] t = S_d3d11 -> "D3D11"
      [] t = S_gl -> "OPENGL"
      [] t = S_gles -> "OPENGLES"
      [] t = S_null -> "NULL"
      [] t = S_vulkan -> "VULKAN"
      [] t = S_swiftshader -> "VULKAN"
      [] OTHER -> "DEFAULT"

\* C8: GetDisplayTypeFromArg returns the table-paired renderer of every
\* recognized token and the default renderer for every other token.
C8_DisplayType ==
    (pc = "constructed" /\ lookupArg # <<>>)
        => /\ renderer = TableRenderer(lookupArg[1])
           /\ lookupArg[1] \notin { kDisplayTypes[k][1] : k \in 1..Len(kDisplayTypes) }
                  => renderer = "DEFAULT"

\* The lookup was applied to an extension of a table name.
C8_Witness ==
    /\ pc = "constructed"
    /\ lookupArg # <<>>
    /\ lookupArg[1] = S_gles \o <<"x">>
    /\ renderer = "DEFAULT"

\* C9: GetDeviceTypeFromArg returns the SwiftShader device type for exactly
\* the token "swiftshader" and the hardware device type for every other token.
C9_DeviceType ==
    (pc = "constructed" /\ lookupArg # <<>>)
        => deviceType = IF lookupArg[2] = S_swiftshader THEN "SWIFTSHADER" ELSE "HARDWARE"

\* The lookup was applied to a token that names a renderer.
C9_Witness ==
    /\ pc = "constructed"
    /\ lookupArg # <<>>
    /\ lookupArg[2] = S_vulkan
    /\ deviceType = "HARDWARE"

StartsWithFlag(a) ==
    Len(a) >= Len(kUseAngleArg) /\ SubSeq(a, 1, Len(kUseAngleArg)) = kUseAngleArg

\* C10: the constructor applies the lookups to the rest of argv[1] when
\* argv[1] starts with "--use-angle=", and otherwise (no argument, no prefix,
\* flag at argv[2]) leaves the default renderer and applies no lookup.
C10_Constructor ==
    pc = "constructed"
        => /\ argv = <<S_prog, kUseAngleArg \o S_vulkan>>
                  => (renderer = "VULKAN" /\ deviceType = "HARDWARE")
           /\ argv = <<S_prog, kUseAngleArg \o S_swiftshader>>
                  => (renderer = "VULKAN" /\ deviceType = "SWIFTSHADER")
           /\ (Len(argv) > 1 /\ StartsWithFlag(argv[2]))
                  => LET t == SubSeq(argv[2], Len(kUseAngleArg) + 1, Len(argv[2]))
                     IN  /\ lookupArg = <<t, t>>
                         /\ renderer = TableRenderer(t)
           /\ (Len(argv) = 1 \/ ~StartsWithFlag(argv[2]))
                  => (renderer = "DEFAULT" /\ deviceType = "UNSET" /\ lookupArg = <<>>)

\* The flag stood at argv[2] behind an argument without the prefix.
C10_Witness ==
    /\ pc = "constructed"
    /\ Len(argv) = 3
    /\ ~StartsWithFlag(argv[2])
    /\ argv[3] = kUseAngleArg \o S_swiftshader
    /\ renderer = "DEFAULT"

\* pcs at which a runIteration() call is executing.
IterPcs == {"hook_step", "iter_drain", "hook_draw", "iter_messageLoop", "iter_return"}

\* C11: with integer ticks and a timer advancing by a fixed positive step per
\* reading, the deltas passed to step() are all >= 0 and never decrease, and
\* each is the elapsed time minus the elapsed time of the last iteration that
\* ran to completion (0 before the first).
C11_StepDeltas ==
    /\ \A i \in 1..Len(stepDeltas) : stepDeltas[i] >= 0
    /\ \A i \in 1..(Len(stepDeltas) - 1) : stepDeltas[i] <= stepDeltas[i + 1]
    /\ Len(stepDeltas) = IF pc = "iter_begin" THEN nIter - 1 ELSE nIter
    /\ pc \in {"hook_step", "iter_drain", "hook_draw", "iter_messageLoop"}
           => /\ elapsedTime = nIter * tick
              /\ deltaTime = elapsedTime - doneElapsed
              /\ Last(stepDeltas) = deltaTime

\* Three step() calls, the last one after an iteration that did not complete.
C11_Witness ==
    /\ pc = "hook_step"
    /\ Len(stepDeltas) = 3
    /\ stepDeltas[2] = tick
    /\ stepDeltas[3] = 2 * tick

NoCloseDrained ==
    IF pc = "iter_drain" THEN "CLOSED" \notin Range(Drained)
    ELSE "CLOSED" \notin Range(drainEvents)

\* C12 as stated: in every state after construction, running == true implies
\* that prepareToRun() has returned success and that neither exit() was called
\* nor a close event drained since.
C12_RunningOnlyAfterPrepare ==
    (pc # "new" /\ mRunning)
        => /\ prepResult = <<0>>
           /\ hookExits = 0
           /\ NoCloseDrained

\* C12 amended: running == true implies that initializeGL() and
\* setSwapInterval(0) succeeded, that initialize() has been entered and has
\* not returned false (the flag is already true while initialize() executes
\* and until prepareToRun() returns 0), and that neither exit() was called nor
\* a close event drained since.
C12_RunningOnlyAfterContext ==
    (pc # "new" /\ mRunning)
        => /\ IsPrefixOf(<<"setVisible", "initializeGL", "setSwapInterval", "LoadGLES",
                           "initialize">>, prepCalls)
           /\ "initialize_failed" \notin Range(prepCalls)
           /\ prepResult = <<0>> \/ pc \in {"hook_initialize", "prep_timerStart"}
           /\ pc \in {"hook_initialize", "prep_timerStart"} => prepResult = NoResult
           /\ hookExits = 0
           /\ NoCloseDrained

\* initialize() is executing and observes running == true.
C12_Witness ==
    /\ pc = "hook_initialize"
    /\ mRunning
    /\ prepResult = NoResult

\* C13 as stated: draw() and swap() are only called while running is true.
C13_NoFrameAfterStop ==
    /\ (pc = "hook_draw" /\ hookExits = 0) => mRunning
    /\ pc = "iter_messageLoop" => mRunning

\* C13 amended: draw() is only called while running is true, and swap() is
\* called with running false only in the iteration whose draw() itself called
\* exit().
C13_NoFrameAfterStopButSwap ==
    /\ (pc = "hook_draw" /\ hookExits = 0) => mRunning
    /\ (pc = "iter_messageLoop" /\ ~mRunning) => (hookExits >= 1 /\ drainRunning)
    /\ pc \in {"hook_draw", "iter_messageLoop"}
           => (drainRunning /\ "CLOSED" \notin Range(drainEvents))

\* swap() has just been called after draw() called exit().
C13_Witness ==
    /\ pc = "iter_messageLoop"
    /\ ~mRunning
    /\ hookExits = 1
    /\ Last(iterCalls) = "swap"

\* C14: on the explicit path prepareToRun() is called once, before the first
\* runIteration(); every runIteration() begins with running == true; after an
\* iteration that ends with running == false no further one is begun.
C14_ExplicitLoop ==
    path = "explicit"
        => /\ nPrepare <= 1
           /\ (nIter >= 1 \/ pc \in IterPcs \cup {"iter_begin", "run_loop"})
                  => (nPrepare = 1 /\ prepResult = <<0>>)
           /\ pc = "iter_begin" => mRunning
           /\ pc \in IterPcs => entryRunning
           /\ pc \in {"run_destroy", "hook_destroy", "run_windowDestroy"} => ~mRunning

\* The explicit loop has ended after two iterations.
C14_Witness ==
    /\ path = "explicit"
    /\ pc = "run_destroy"
    /\ nIter = 2
    /\ ~mRunning

PopCalls(n) == [i \in 1..n |-> "popEvent"]

\* running as the code finds it after the drain, from the flag at the start
\* of the drain and the events drained.
RunningAfterDrain == drainRunning /\ "CLOSED" \notin Range(drainEvents)

\* C15: a runIteration() call invokes step() once, before any event is popped;
\* then, if running is true after the drain, draw(), swap() and messageLoop()
\* once each in that order, and none of them otherwise; it returns 0.
C15_IterationOrder ==
    /\ pc = "hook_step" => iterCalls = <<"step">>
    /\ pc = "iter_drain" => iterCalls = <<"step">> \o PopCalls(Len(Drained))
    /\ pc = "iter_return"
           => /\ iterCalls = <<"step">> \o PopCalls(Len(drainEvents))
                    \o (IF RunningAfterDrain THEN <<"draw", "swap", "messageLoop">>
                        ELSE <<>>)
              /\ iterResult = <<0>>
    /\ pc \in IterPcs \ {"iter_return"} => iterResult = NoResult

\* A call with a close event pending has returned: step() ran, nothing was drawn.
C15_Witness ==
    /\ pc = "iter_return"
    /\ entryRunning
    /\ drainEvents = <<"CLOSED">>
    /\ iterCalls = <<"step", "popEvent">>
    /\ iterResult = <<0>>

DrainFacts ==
    /\ pc = "iter_drain"
           => /\ IsPrefixOf(events, SubSeq(drainEvents, Len(Drained) + 1, Len(drainEvents)))
              /\ Len(Drained) + Len(events) = Len(drainEvents)
              /\ mRunning = (drainRunning /\ "CLOSED" \notin Range(Drained))
              /\ mPrevTime = entryPrevTime
              /\ Last(stepDeltas) = deltaTime
    /\ (pc = "hook_draw" \/ (pc = "iter_return" /\ "messageLoop" \notin Range(iterCalls)))
           => /\ events = <<>>
              /\ Len(SelectSeq(iterCalls, LAMBDA c : c = "popEvent")) = Len(drainEvents)

\* C16 as stated: the drain pops every pending event, also after a close
\* event; other events leave running and the rest of the state alone; an
\* iteration (entered while running) whose queue holds only non-close events
\* goes on to draw() and swap().
C16_DrainThenDraw ==
    /\ DrainFacts
    /\ (pc = "iter_return" /\ entryRunning /\ "CLOSED" \notin Range(drainEvents))
           => {"draw", "swap"} \subseteq Range(iterCalls)

\* C16 amended: as C16, the iteration going on to draw() and swap() when
\* running is still true at the start of the drain (step() has not called
\* exit()).
C16_DrainThenDrawIfRunning ==
    /\ DrainFacts
    /\ (pc = "iter_return" /\ drainRunning /\ "CLOSED" \notin Range(drainEvents))
           => {"draw", "swap"} \subseteq Range(iterCalls)

\* The drain went on popping after the close event at the head of the queue.
C16_Witness ==
    /\ pc = "iter_return"
    /\ drainEvents = <<"CLOSED", "OTHER">>
    /\ events = <<>>
    /\ iterCalls = <<"step", "popEvent", "popEvent">>

\* exit() has been called by a hook, or the drain has popped a close event.
StopRequested == hookExits >= 1 \/ ~NoCloseDrained

ReturnedClean ==
    /\ pc = "returned"
    /\ result = <<0>>
    /\ teardown = <<"destroy", "destroyGL", "windowDestroy">>

C18_Baseline ==
    /\ pc \in IterPcs \ {"iter_return"} => mPrevTime = entryPrevTime
    /\ (pc = "iter_return" /\ ~RunningAfterDrain)
           => (mPrevTime = entryPrevTime /\ "messageLoop" \notin Range(iterCalls))
    /\ (pc = "iter_return" /\ RunningAfterDrain)
           => /\ mPrevTime = elapsedTime
              /\ SubSeq(iterCalls, Len(iterCalls) - 2, Len(iterCalls))
                     = <<"draw", "swap", "messageLoop">>
    /\ mPrevTime = doneElapsed

\* A later iteration returned early: the baseline is the earlier iteration's.
C18_Witness ==
    /\ pc = "iter_return"
    /\ ~RunningAfterDrain
    /\ entryPrevTime > 0
    /\ mPrevTime = entryPrevTime
    /\ elapsedTime > mPrevTime

\* C19: when the window's initialize() returns false, run() returns -1 at
\* once; nothing else is called and running stays false.
C19_WindowInitFailure ==
    winInit = "failed"
        => /\ pc = "returned"
           /\ result = <<-1>>
           /\ path = "none"
           /\ nPrepare = 0
           /\ prepCalls = <<>>
           /\ prepResult = NoResult
           /\ ownResult = NoResult
           /\ nIter = 0
           /\ iterCalls = <<>>
           /\ stepDeltas = <<>>
           /\ teardown = <<>>
           /\ ~mRunning

\* run() has returned after the window could not be initialized.
C19_Witness ==
    /\ winInit = "failed"
    /\ pc = "returned"
    /\ result = <<-1>>

====
